---- MODULE Spec2Model ----
(***************************************************************************)
(* A model of the darkchan imageboard backend: the object-storage upload   *)
(* pipeline (utils/fileStorage.js), the orphan reconciler                  *)
(* (utils/cleanup.js), the tripcode functions (utils/fileUtils.js), the    *)
(* request middlewares and the thread controller.                          *)
(*                                                                         *)
(* Representation of JavaScript values.  A value that may be null is a     *)
(* record tagged by t: Null, Str(chars) for a string of characters,        *)
(* PathStr(segs) for a storage path (the string split at '/'), and the     *)
(* record built by getPublicUrl for a public URL.  A storage key is the    *)
(* sequence of its path segments; a segment is NsfwDir or a generated file *)
(* name [uuid, ext].                                                       *)
(***************************************************************************)
EXTENDS Integers, Sequences, FiniteSets, TLC

VARIABLES
    images,     \* object keys present in the bucket 'board-images'
    thumbs,     \* object keys present in the bucket 'board-thumbnails'
    threads,    \* rows of the table threads
    posts,      \* rows of the table posts
    uuidCount,  \* number of generated file names stored so far
    idCount,    \* number of generated row ids stored so far
    env,        \* process.env, fixed when the process starts
    cascade,    \* whether posts.thread_id is declared ON DELETE CASCADE
    last,       \* the operation in hand: its inputs, its answer, how its calls went
    trip,       \* the tripcode functions applied to one password
    flight      \* the requests served step by step: the clock and where each is

vars == <<images, thumbs, threads, posts, uuidCount, idCount, env, cascade, last,
          trip, flight>>

\* ------------------------------------------------------------------ bounds

\* uuidv4() values are modelled by counters: a value is the next number not yet
\* stored anywhere (a value that was drawn and never stored is not told apart
\* from a fresh one).  At most MaxUuid generated file names are stored in a
\* behaviour, and at most MaxRows generated row ids.
MaxUuid == 2

MaxRows == 2

\* The passwords given to the tripcode functions have at most MaxPasswordLen
\* characters.
MaxPasswordLen == 3

\* ------------------------------------------------------------ JS values

Null == [t |-> "null"]

Str(chars) == [t |-> "str", v |-> chars]

PathStr(segs) == [t |-> "path", segs |-> segs]

\* JavaScript truthiness of a nullable string: null and '' are falsy.
Truthy(x) == x.t # "null" /\ (x.t = "str" => x.v # <<>>)

\* -------------------------------------------------------- storage gateway

IMAGES_BUCKET == "board-images"

THUMBNAILS_BUCKET == "board-thumbnails"

\* The namespace segment of `${isNsfw ? 'nsfw/' : ''}`.
NsfwDir == [dir |-> "nsfw"]

\* An upload that writes the object even when the service reports an error.
StorageUploadWritesAnyway(objects, key, oc) ==
    [error |-> ~(oc = "ok" /\ key \notin objects), objects |-> objects \cup {key}]

\* supabase.storage.from(bucket).upload(key, ..., {upsert: false}): the object is
\* written unless the service fails or the key is already taken.
StorageUpload(objects, key, oc) ==
    IF oc = "ok" /\ key \notin objects
    THEN [error |-> FALSE, objects |-> objects \cup {key}]
    ELSE [error |-> TRUE, objects |-> objects]

\* supabase.storage.from(bucket).remove([key]): removes exactly the object stored
\* under key; removing a key that names no object is not an error.
StorageRemove(objects, key, oc) ==
    IF oc = "ok"
    THEN [error |-> FALSE, objects |-> objects \ {key}]
    ELSE [error |-> TRUE, objects |-> objects]

\* supabase.storage.from(bucket).getPublicUrl(path):
\* https://<project>/storage/v1/object/public/<bucket>/<path>
getPublicUrlNone(bucket, path) == Null

getPublicUrl(bucket, path) == [t |-> "url", bucket |-> bucket, segs |-> path]

\* String.prototype.startsWith('http') on a stored file reference.
startsWithHttp(x) == x.t = "url"

\* new URL(u).pathname.split('/'): '', storage, v1, object, public, bucket, path...
pathnameParts(u) ==
    <<[dir |-> ""], [dir |-> "storage"], [dir |-> "v1"], [dir |-> "object"],
      [dir |-> "public"], [dir |-> u.bucket]>> \o u.segs

\* ------------------------------------------------------------ upload files

\* path.extname of an original name; a name is kept split at its last dot.
extname(name) == name.ext

\* The fallback of file.originalname || 'unknown.jpg'.
UnknownJpg == [stem |-> "unknown", ext |-> ".jpg"]

ImageJpeg == [family |-> "image", sub |-> "jpeg"]

ImagePng == [family |-> "image", sub |-> "png"]

ApplicationPdf == [family |-> "application", sub |-> "pdf"]

TextHtml == [family |-> "text", sub |-> "html"]

\* A test of the MIME type that takes every file for an image.
isImageAlways(mimetype) == TRUE

\* file.mimetype.startsWith('image/')
isImage(mimetype) == mimetype.family = "image"

\* A file name made of the original name's extension alone.
fileNameFixed(uuid, fileExt) == [uuid |-> 1, ext |-> fileExt]

\* `${uuidv4()}${fileExt}`
fileNameOf(uuid, fileExt) == [uuid |-> uuid, ext |-> fileExt]

\* A key without the namespace segment.
storagePathFlat(isNsfw, fileName) == <<fileName>>

\* `${isNsfw ? 'nsfw/' : ''}${fileName}`, split at '/'.
storagePathOf(isNsfw, fileName) ==
    (IF isNsfw THEN <<NsfwDir>> ELSE <<>>) \o <<fileName>>

\* The outcomes of the calls uploadFile makes: the upload of the original, the
\* sharp resize, the upload of the thumbnail.
UploadOutcomes ==
    [upload : {"ok", "error"}, sharp : {"ok", "throw"}, thumb : {"ok", "error"}]

AllOk == [upload |-> "ok", sharp |-> "ok", thumb |-> "ok"]

\* An uploadFile that derives and uploads the thumbnail before it uploads the
\* original.
uploadFileThumbnailFirst(imgs, ths, file, isNsfw, uuid, oc) ==
    IF file = Null
    THEN [result |-> Null, images |-> imgs, thumbs |-> ths,
          triedSharp |-> FALSE, triedThumb |-> FALSE]
    ELSE
    LET fileExt == extname(IF file.originalname = Null THEN UnknownJpg
                           ELSE file.originalname)
        storagePath == storagePathOf(isNsfw, fileNameOf(uuid, fileExt))
        triedSharp == isImage(file.mimetype)
        tried == triedSharp /\ oc.sharp = "ok"
        tup == IF tried THEN StorageUpload(ths, storagePath, oc.thumb)
               ELSE [error |-> TRUE, objects |-> ths]
        up == StorageUpload(imgs, storagePath, oc.upload)
    IN  [result |-> IF up.error THEN Null
                    ELSE [fileName |-> file.originalname,
                          fileSize |-> file.size,
                          fileType |-> file.mimetype,
                          filePath |-> getPublicUrl(IMAGES_BUCKET, storagePath),
                          thumbnailPath |->
                              IF tried /\ ~tup.error
                              THEN getPublicUrl(THUMBNAILS_BUCKET, storagePath)
                              ELSE Null,
                          storagePath |-> PathStr(storagePath)],
         images |-> up.objects,
         thumbs |-> tup.objects,
         triedSharp |-> triedSharp,
         triedThumb |-> tried]

\* uploadFile(file, isNsfw) on buckets imgs / ths, with uuid the value uuidv4()
\* returns: the record returned (Null on failure), the buckets afterwards, and
\* whether the resize and the upload of the thumbnail were attempted.
uploadFile(imgs, ths, file, isNsfw, uuid, oc) ==
    IF file = Null
    THEN [result |-> Null, images |-> imgs, thumbs |-> ths,
          triedSharp |-> FALSE, triedThumb |-> FALSE]
    ELSE
    LET fileExt == extname(IF file.originalname = Null THEN UnknownJpg
                           ELSE file.originalname)
        fileName == fileNameOf(uuid, fileExt)
        storagePath == storagePathOf(isNsfw, fileName)
        up == StorageUpload(imgs, storagePath, oc.upload)
    IN  IF up.error
        THEN [result |-> Null, images |-> up.objects, thumbs |-> ths,
              triedSharp |-> FALSE, triedThumb |-> FALSE]
        ELSE
        LET urlData == getPublicUrl(IMAGES_BUCKET, storagePath)
            thumbnailPath == storagePathOf(isNsfw, fileName)
            triedSharp == isImage(file.mimetype)
            tried == triedSharp /\ oc.sharp = "ok"
            tup == IF tried THEN StorageUpload(ths, thumbnailPath, oc.thumb)
                   ELSE [error |-> TRUE, objects |-> ths]
            thumbnailUrl == IF tried /\ ~tup.error
                            THEN getPublicUrl(THUMBNAILS_BUCKET, thumbnailPath)
                            ELSE Null
        IN  [result |-> [fileName |-> file.originalname,
                         fileSize |-> file.size,
                         fileType |-> file.mimetype,
                         filePath |-> urlData,
                         thumbnailPath |-> thumbnailUrl,
                         storagePath |-> PathStr(storagePath)],
             images |-> up.objects,
             thumbs |-> tup.objects,
             triedSharp |-> triedSharp,
             triedThumb |-> tried]

\* The outcomes of the two remove calls of deleteFile: each succeeds, returns
\* an error, or throws (the request itself fails).
DeleteOutcomes ==
    [orig : {"ok", "error", "throw"}, thumb : {"ok", "error", "throw"}]

DeleteOk == [orig |-> "ok", thumb |-> "ok"]

\* The key deleteFile removes from the thumbnail bucket: the last part of the
\* URL's pathname when the reference is a URL, the reference itself otherwise.
thumbnailStoragePath(thumbnailPath) ==
    IF startsWithHttp(thumbnailPath)
    THEN LET pathParts == pathnameParts(thumbnailPath)
         IN  <<pathParts[Len(pathParts)]>>
    ELSE thumbnailPath.segs

\* deleteFile(storagePath, thumbnailPath): the value returned, the buckets
\* afterwards, and which removes were attempted.
deleteFile(imgs, ths, storagePath, thumbnailPath, oc) ==
    LET doOrig == Truthy(storagePath)
        doThumb == Truthy(thumbnailPath)
        r1 == IF doOrig /\ oc.orig # "throw"
              THEN StorageRemove(imgs, storagePath.segs, oc.orig)
              ELSE [error |-> FALSE, objects |-> imgs]
        thrown1 == doOrig /\ oc.orig = "throw"
        triedThumb == doThumb /\ ~thrown1
        r2 == IF triedThumb /\ oc.thumb # "throw"
              THEN StorageRemove(ths, thumbnailStoragePath(thumbnailPath), oc.thumb)
              ELSE [error |-> FALSE, objects |-> ths]
        thrown2 == triedThumb /\ oc.thumb = "throw"
    IN  [result |-> ~(thrown1 \/ thrown2),
         images |-> r1.objects,
         thumbs |-> r2.objects,
         triedOrig |-> doOrig,
         triedThumb |-> triedThumb]

\* ---------------------------------------------------------------- tripcodes

\* Strings of the tripcode functions are sequences of character codes.
DefaultSalt == <<100, 101, 102, 97, 117, 108, 116, 115, 97, 108, 116>>

\* process.env.TRIPCODE_SALT || 'defaultsalt'
salt == IF Truthy(env.TRIPCODE_SALT) THEN env.TRIPCODE_SALT.v ELSE DefaultSalt

\* The base64 alphabet.
B64 ==
    <<"A", "B", "C", "D", "E", "F", "G", "H", "I", "J", "K", "L", "M", "N", "O", "P",
      "Q", "R", "S", "T", "U", "V", "W", "X", "Y", "Z", "a", "b", "c", "d", "e", "f",
      "g", "h", "i", "j", "k", "l", "m", "n", "o", "p", "q", "r", "s", "t", "u", "v",
      "w", "x", "y", "z", "0", "1", "2", "3", "4", "5", "6", "7", "8", "9", "+", "/">>

\* A stand-in for SHA-256: a deterministic mixing of the input's characters.
\* Only what the code relies on is kept: the digest is a function of its input.
RECURSIVE Mix(_, _)
Mix(chars, h) ==
    IF chars = <<>> THEN h
    ELSE Mix(Tail(chars), ((h * 31) + Head(chars)) % 2039)

\* crypto.createHash('sha256').update(input).digest('base64'): 32 bytes make 43
\* base64 digits and one '=' of padding.
sha256Base64(input) ==
    LET h == Mix(input, 7)
    IN  [i \in 1..44 |->
            IF i = 44 THEN "=" ELSE B64[(((h + i) * ((i * i) + 3)) % 64) + 1]]

\* String.prototype.substring(0, n)
substring0(s, n) == SubSeq(s, 1, IF Len(s) < n THEN Len(s) ELSE n)

\* .replace(/\+/g, '.').replace(/\//g, ',').replace(/=/g, '-')
replaceUnsafe(s) ==
    [i \in 1..Len(s) |->
        IF s[i] = "+" THEN "."
        ELSE IF s[i] = "/" THEN ","
        ELSE IF s[i] = "=" THEN "-"
        ELSE s[i]]

\* The number of leading characters of the digest a tripcode keeps.
TripcodeLength == 10

\* A generation without the guard on the password: the digest of the salt
\* alone when there is no password.
generateTripcodeNoGuard(password) ==
    Str(replaceUnsafe(substring0(
        sha256Base64((IF Truthy(password) THEN password.v ELSE <<>>) \o salt),
        TripcodeLength)))

\* generateTripcode(password): null without a password, else the first
\* TripcodeLength characters of the digest with '+', '/' and '=' replaced.
generateTripcode(password) ==
    IF ~Truthy(password) THEN Null
    ELSE Str(replaceUnsafe(substring0(sha256Base64(password.v \o salt),
                                      TripcodeLength)))

\* A verification that compares with the digest before the substitutions.
verifyTripcodeRaw(password, tripcode) ==
    Str(substring0(sha256Base64((IF Truthy(password) THEN password.v ELSE <<>>)
                                \o salt), TripcodeLength)) = tripcode

\* verifyTripcode(password, tripcode)
verifyTripcode(password, tripcode) ==
    LET generatedTripcode == generateTripcode(password)
    IN  generatedTripcode = tripcode

\* ------------------------------------------------------- request middlewares

\* A text field of a request body, kept by its length and whether it is blank.
Text(n) == [t |-> "text", len |-> n, blank |-> (n = 0)]

Blank(n) == [t |-> "text", len |-> n, blank |-> TRUE]

\* The form value 'true' of is_nsfw.
StrTrue == [t |-> "str", v |-> "true"]

Anonymous == [t |-> "text", len |-> 9, blank |-> FALSE]

DefaultAllowedTypes ==
    {ImageJpeg, ImagePng, [family |-> "image", sub |-> "gif"],
     [family |-> "image", sub |-> "webp"]}

\* (process.env.ALLOWED_FILE_TYPES || 'image/jpeg,image/png,image/gif,image/webp').split(',')
allowedTypes ==
    IF env.ALLOWED_FILE_TYPES = Null THEN DefaultAllowedTypes
    ELSE env.ALLOWED_FILE_TYPES.types

fileFilter(file) == file.mimetype \in allowedTypes

\* The value parseInt gives for what is no number.
NaN == [t |-> "NaN"]

\* The number of leading characters of chars that are decimal digits.
RECURSIVE leadingDigits(_)
leadingDigits(chars) ==
    IF chars = <<>> \/ Head(chars) < 48 \/ Head(chars) > 57 THEN 0
    ELSE 1 + leadingDigits(Tail(chars))

\* The number the first n characters of chars write in base ten.
RECURSIVE decimal(_, _)
decimal(chars, n) ==
    IF n = 0 THEN 0 ELSE (10 * decimal(chars, n - 1)) + (chars[n] - 48)

\* parseInt(v) of an environment variable: the number its leading digits
\* write, NaN when it is not set or does not start with a digit.
parseInt(v) ==
    IF v = Null \/ leadingDigits(v.v) = 0 THEN NaN
    ELSE [t |-> "num", v |-> decimal(v.v, leadingDigits(v.v))]

\* limits.fileSize: parseInt(process.env.MAX_FILE_SIZE) || 5 * 1024 * 1024
maxFileSize ==
    LET configured == parseInt(env.MAX_FILE_SIZE)
    IN  IF configured = NaN \/ configured.v = 0 THEN 5 * 1024 * 1024
        ELSE configured.v

\* upload.single('file'): a file of a type that is not allowed or larger than
\* limits.fileSize makes multer pass an error to next(), which the error
\* handler of app.js answers.
multerRejects(file) ==
    file # Null /\ (~fileFilter(file) \/ file.size > maxFileSize)

\* The error-handling middleware of app.js: err.status || 500 for an error that
\* is no ValidationError and no UnauthorizedError.
errorHandlerStatus == 500

\* req.body.is_nsfw === 'true' || req.body.is_nsfw === true
isNsfwFlag(v) == v = StrTrue \/ v = [t |-> "bool", v |-> TRUE]

\* processUpload: the response it sends (0 when it calls next()), req.fileData,
\* the buckets afterwards, and what became of the copy of the file multer wrote
\* to the upload directory: "none" when there is no file, "removed" when
\* fs.unlinkSync(req.file.path) was reached, "left" when it was not.
processUpload(imgs, ths, file, body, uuid, oc) ==
    IF file = Null
    THEN [status |-> 0, fileData |-> Null, images |-> imgs, thumbs |-> ths,
          temp |-> "none"]
    ELSE
    LET isNsfw == isNsfwFlag(body.is_nsfw)
        up == uploadFile(imgs, ths, file, isNsfw, uuid, oc)
    IN  [status |-> IF up.result = Null THEN 500 ELSE 0,
         fileData |-> up.result,
         images |-> up.images,
         thumbs |-> up.thumbs,
         temp |-> IF up.result = Null THEN "left" ELSE "removed"]

MaxSubject == 100

MaxComment == 10000

MaxName == 50

\* Joi.string(): a string, not empty unless '' is allowed.
joiString(v, min, max, allowEmpty, required) ==
    IF v = Null THEN ~required
    ELSE /\ v.t = "text"
         /\ (v.len = 0 => allowEmpty)
         /\ v.len >= min
         /\ v.len <= max

\* Joi.boolean().default(false), converting the strings 'true' and 'false'.
joiBoolean(v) ==
    v = Null \/ v.t = "bool" \/ v = StrTrue \/ v = [t |-> "str", v |-> "false"]

\* The schema of validateThread (subject) and of validatePost (no subject).
schemaError(body, withSubject) ==
    ~ /\ (withSubject => joiString(body.subject, 0, MaxSubject, TRUE, FALSE))
      /\ (~withSubject => body.subject = Null)
      /\ joiString(body.comment, 1, MaxComment, FALSE, TRUE)
      /\ joiString(body.name, 0, MaxName, FALSE, FALSE)
      /\ joiBoolean(body.is_nsfw)

\* A check of the content that lets every request pass.
missingContentNever(file, body) == FALSE

\* !req.file && (!req.body.comment || req.body.comment.trim() === '')
missingContent(file, body) ==
    file = Null /\ (body.comment = Null \/ body.comment.blank)

\* The body after validation: defaults applied, is_nsfw converted.
validated(body) ==
    [body EXCEPT !.name = IF body.name = Null THEN Anonymous ELSE body.name,
                 !.is_nsfw = [t |-> "bool", v |-> isNsfwFlag(body.is_nsfw)]]

\* validateThread / validatePost: the status answered, 0 when next() is called.
validate(file, body, withSubject) ==
    IF schemaError(body, withSubject) THEN 400
    ELSE IF missingContent(file, body) THEN 400
    ELSE 0

\* ------------------------------------------------------------ thread controller

\* The file columns of a row: set from req.fileData, NULL when there is none.
fileColumns(fileData) ==
    IF fileData = Null
    THEN [file_name |-> Null, file_path |-> Null, file_size |-> Null,
          file_type |-> Null, thumbnail_path |-> Null, storage_path |-> Null]
    ELSE [file_name |-> fileData.fileName, file_path |-> fileData.filePath,
          file_size |-> fileData.fileSize, file_type |-> fileData.fileType,
          thumbnail_path |-> fileData.thumbnailPath,
          storage_path |-> fileData.storagePath]

\* let tripcode = null; if (password) tripcode = generateTripcode(password)
tripcodeFor(password) ==
    IF Truthy(password) THEN generateTripcode(password) ELSE Null

\* subject || null
orNull(v) == IF v = Null \/ v.len = 0 THEN Null ELSE v

\* The catch block of createThread and replyToThread: deleteFile on the file
\* the middleware uploaded, when there is one.
cleanupUploaded(imgs, ths, fileData, doc) ==
    IF fileData # Null /\ Truthy(fileData.storagePath)
    THEN deleteFile(imgs, ths, fileData.storagePath, fileData.thumbnailPath, doc)
    ELSE [result |-> TRUE, images |-> imgs, thumbs |-> ths,
          triedOrig |-> FALSE, triedThumb |-> FALSE]

\* A lookup that answers with any row of the table when the id names none.
RowOfAny(rows, id) ==
    IF \E r \in rows : r.id = id THEN CHOOSE r \in rows : r.id = id
    ELSE IF rows # {} THEN CHOOSE r \in rows : TRUE
    ELSE Null

\* select('*').eq('id', id).single(): the row with the given id, Null when there
\* is none (error code PGRST116).
RowOf(rows, id) ==
    IF \E r \in rows : r.id = id THEN CHOOSE r \in rows : r.id = id ELSE Null

\* new Date() as a request reads it that is served as a whole after count rows
\* were inserted: later requests read later times, and a request's second
\* reading is later than its first.
dateNow(count) == 2 * count + 1

\* The thread with the given id has the given fields overwritten.
updateThread(thr, threadId, fields) ==
    {IF t.id = threadId THEN fields @@ t ELSE t : t \in thr}

\* createThread, after the middlewares, with now the value of new Date(): the
\* status answered, the row inserted (Null when none) and the buckets
\* afterwards.
createThread(imgs, ths, body, fileData, uuid, now, insertOc, doc) ==
    LET threadData ==
            [id |-> uuid,
             subject |-> orNull(body.subject),
             comment |-> body.comment,
             name |-> body.name,
             tripcode |-> tripcodeFor(body.password),
             is_nsfw |-> isNsfwFlag(body.is_nsfw),
             created_at |-> now,
             bumped_at |-> now,
             images_count |-> IF fileData = Null THEN 0 ELSE 1]
                @@ fileColumns(fileData)
    IN  IF insertOc = "ok"
        THEN [status |-> 201, row |-> threadData, images |-> imgs, thumbs |-> ths]
        ELSE LET d == cleanupUploaded(imgs, ths, fileData, doc)
             IN  [status |-> 500, row |-> Null, images |-> d.images,
                  thumbs |-> d.thumbs]

\* The row replyToThread inserts, with now the value of new Date().
postDataOf(threadId, body, fileData, uuid, now) ==
    [id |-> uuid,
     thread_id |-> threadId,
     comment |-> body.comment,
     name |-> body.name,
     tripcode |-> tripcodeFor(body.password),
     is_nsfw |-> isNsfwFlag(body.is_nsfw),
     reply_to |-> Null,
     created_at |-> now] @@ fileColumns(fileData)

\* replyToThread, after the middlewares.  oc.select is the outcome of the query
\* for the thread: "ok", or "error" for an error other than PGRST116; oc.insert
\* and oc.bump are those of the insert of the post and of the update of the
\* thread's bumped_at, the second of which is not looked at; oc.file are those
\* of deleteFile in the catch block.  now and later are the values of the two
\* new Date().
replyToThread(imgs, ths, thr, threadId, body, fileData, uuid, now, later, oc) ==
    LET same == [status |-> 0, row |-> Null, images |-> imgs, thumbs |-> ths,
                 threads |-> thr]
    IN  IF oc.select = "ok" /\ RowOf(thr, threadId) = Null
        THEN [same EXCEPT !.status = 404]
        ELSE IF oc.select = "ok" /\ oc.insert = "ok"
        THEN [same EXCEPT
                !.status = 201,
                !.row = postDataOf(threadId, body, fileData, uuid, now),
                !.threads = IF oc.bump = "ok"
                            THEN updateThread(thr, threadId, [bumped_at |-> later])
                            ELSE thr]
        ELSE LET d == cleanupUploaded(imgs, ths, fileData, oc.file)
             IN  [same EXCEPT !.status = 500, !.images = d.images,
                              !.thumbs = d.thumbs]

\* A rejection only of a row that has no tripcode and does not verify either.
passwordRejectedBoth(password, tripcode) ==
    ~Truthy(tripcode) /\ ~verifyTripcode(password, tripcode)

\* getThread: the status answered.  selectOc and postsOc are the outcomes of the
\* query for the thread and of the query for its posts.
getThread(thr, threadId, selectOc, postsOc) ==
    IF selectOc # "ok" THEN 500
    ELSE IF RowOf(thr, threadId) = Null THEN 404
    ELSE IF postsOc # "ok" THEN 500
    ELSE 200

\* A rejection only of a row that has a tripcode, when it does not verify.
passwordRejectedWithTripcode(password, tripcode) ==
    Truthy(tripcode) /\ ~verifyTripcode(password, tripcode)

\* !row.tripcode || !verifyTripcode(password, row.tripcode)
passwordRejected(password, tripcode) ==
    ~Truthy(tripcode) \/ ~verifyTripcode(password, tripcode)

\* deleteFile on every row of rows that has a storage_path, with the outcomes
\* ocOf[row.id]: the buckets afterwards.
RECURSIVE deleteFilesOf(_, _, _, _)
deleteFilesOf(imgs, ths, rows, ocOf) ==
    IF rows = {} THEN [images |-> imgs, thumbs |-> ths]
    ELSE LET post == CHOOSE r \in rows : TRUE
             d == IF Truthy(post.storage_path)
                  THEN deleteFile(imgs, ths, post.storage_path,
                                  post.thumbnail_path, ocOf[post.id])
                  ELSE [images |-> imgs, thumbs |-> ths]
         IN  deleteFilesOf(d.images, d.thumbs, rows \ {post}, ocOf)

\* DELETE FROM threads WHERE id = threadId: the posts of the thread go with it
\* when the foreign key cascades.
afterThreadDelete(pst, threadId) ==
    IF cascade THEN {p \in pst : p.thread_id # threadId} ELSE pst

\* deleteThread.  oc.select and oc.del are the outcomes of the query for the
\* thread and of its delete, oc.file the outcomes of deleteFile on the thread's
\* file, oc.selPosts and oc.delPosts those of the query for the thread's posts
\* and of their delete (neither result is looked at), oc.posts[id] those of
\* deleteFile on the file of post id.
deleteThread(imgs, ths, thr, pst, threadId, password, oc) ==
    LET same == [status |-> 0, images |-> imgs, thumbs |-> ths,
                 threads |-> thr, posts |-> pst]
    IN  IF ~Truthy(password) THEN [same EXCEPT !.status = 400]
        ELSE IF oc.select # "ok" THEN [same EXCEPT !.status = 500]
        ELSE IF RowOf(thr, threadId) = Null THEN [same EXCEPT !.status = 404]
        ELSE
        LET thread == RowOf(thr, threadId)
        IN  IF passwordRejected(password, thread.tripcode)
            THEN [same EXCEPT !.status = 403]
            ELSE IF oc.del # "ok" THEN [same EXCEPT !.status = 500]
            ELSE
            LET thr1 == thr \ {thread}
                pst1 == afterThreadDelete(pst, threadId)
                d == IF Truthy(thread.storage_path)
                     THEN deleteFile(imgs, ths, thread.storage_path,
                                     thread.thumbnail_path, oc.file)
                     ELSE [images |-> imgs, thumbs |-> ths]
                found == IF oc.selPosts = "ok"
                         THEN {p \in pst1 : p.thread_id = threadId}
                         ELSE {}
                dp == deleteFilesOf(d.images, d.thumbs, found, oc.posts)
            IN  [status |-> 200, images |-> dp.images, thumbs |-> dp.thumbs,
                 threads |-> thr1,
                 posts |-> IF oc.delPosts = "ok"
                           THEN {p \in pst1 : p.thread_id # threadId}
                           ELSE pst1]

\* rpc('update_thread_counts', {thread_id, images_adjustment,
\* posts_adjustment}): the database function adds the adjustments to the counts
\* of the thread.  Of the counts only images_count is a column the handlers
\* write.
update_thread_counts(thr, thread_id, images_adjustment, posts_adjustment) ==
    {IF t.id = thread_id
     THEN [t EXCEPT !.images_count = @ + images_adjustment]
     ELSE t : t \in thr}

\* deletePost.  oc.rpc is the outcome of the call of update_thread_counts, which
\* is not looked at.
deletePost(imgs, ths, thr, pst, postId, password, oc) ==
    LET same == [status |-> 0, images |-> imgs, thumbs |-> ths,
                 threads |-> thr, posts |-> pst]
    IN  IF ~Truthy(password) THEN [same EXCEPT !.status = 400]
        ELSE IF oc.select # "ok" THEN [same EXCEPT !.status = 500]
        ELSE IF RowOf(pst, postId) = Null THEN [same EXCEPT !.status = 404]
        ELSE
        LET post == RowOf(pst, postId)
        IN  IF passwordRejected(password, post.tripcode)
            THEN [same EXCEPT !.status = 403]
            ELSE IF oc.del # "ok" THEN [same EXCEPT !.status = 500]
            ELSE
            LET d == IF Truthy(post.storage_path)
                     THEN deleteFile(imgs, ths, post.storage_path,
                                     post.thumbnail_path, oc.file)
                     ELSE [images |-> imgs, thumbs |-> ths]
            IN  [status |-> 200, images |-> d.images, thumbs |-> d.thumbs,
                 threads |-> IF oc.rpc = "ok"
                             THEN update_thread_counts(
                                      thr, post.thread_id,
                                      IF Truthy(post.file_path) THEN -1 ELSE 0, -1)
                             ELSE thr,
                 posts |-> pst \ {post}]

\* ------------------------------------------------------------ orphan reconciler

\* The number of entries one list() call returns at most.  The storage service's
\* default is 100; the model keeps the buckets small and scales the page with
\* them.
ListLimit == 2

\* The listing's order by name: generated names are hexadecimal, so the folder
\* 'nsfw' sorts after every one of them.
nameBefore(m, n) == m # NsfwDir /\ (n = NsfwDir \/ m.uuid < n.uuid)

\* supabase.storage.from(bucket).list(): the entries directly under the bucket's
\* root, a file for a key of one segment and a folder for the first segment of a
\* longer key, ordered by name, the first ListLimit of them.
storageList(objects) ==
    LET entries == {k[1] : k \in objects}
    IN  {n \in entries :
            Cardinality({m \in entries : nameBefore(m, n)}) < ListLimit}

\* select('storage_path').not('storage_path', 'is', null) on both tables, added
\* to the set validPaths.
validPathsOf(thr, pst) ==
    {r.storage_path : r \in {x \in thr : Truthy(x.storage_path)}}
        \cup {r.storage_path : r \in {x \in pst : Truthy(x.storage_path)}}

\* !validPaths.has(file.name)
isOrphan(validPaths, name) == PathStr(<<name>>) \notin validPaths

\* A run that stops only when a listing fails.
readFailedListsOnly(oc) == oc.listImages # "ok" \/ oc.listThumbs # "ok"

\* if (imgError) throw imgError; if (thumbError) throw thumbError;
\* if (threadError) throw threadError; if (postError) throw postError
readFailed(oc) ==
    \/ oc.listImages # "ok" \/ oc.listThumbs # "ok"
    \/ oc.threadQuery # "ok" \/ oc.postQuery # "ok"

\* cleanupOrphanedFiles.  oc.listImages, oc.listThumbs, oc.threadQuery and
\* oc.postQuery are the outcomes of the four reads; oc.failImages and
\* oc.failThumbs are the entries whose remove returns an error.
cleanupOrphanedFiles(imgs, ths, thr, pst, oc) ==
    IF readFailed(oc)
    THEN [count |-> 0, images |-> imgs, thumbs |-> ths,
          imageFiles |-> {}, thumbnailFiles |-> {},
          triedImages |-> {}, triedThumbs |-> {}]
    ELSE
    LET imageFiles == storageList(imgs)
        thumbnailFiles == storageList(ths)
        validPaths == validPathsOf(thr, pst)
        triedImages == {n \in imageFiles : isOrphan(validPaths, n)}
        triedThumbs == {n \in thumbnailFiles : isOrphan(validPaths, n)}
        goneImages == triedImages \ oc.failImages
        goneThumbs == triedThumbs \ oc.failThumbs
    IN  [count |-> Cardinality(goneImages) + Cardinality(goneThumbs),
         images |-> imgs \ {<<n>> : n \in goneImages},
         thumbs |-> ths \ {<<n>> : n \in goneThumbs},
         imageFiles |-> imageFiles,
         thumbnailFiles |-> thumbnailFiles,
         triedImages |-> triedImages,
         triedThumbs |-> triedThumbs]

\* -------------------------------------------------------------------- inputs

JpegFile == [originalname |-> [stem |-> "a", ext |-> ".jpg"],
             mimetype |-> ImageJpeg, size |-> 1024]

PdfFile == [originalname |-> [stem |-> "b", ext |-> ".pdf"],
            mimetype |-> ApplicationPdf, size |-> 1024]

HtmlFile == [originalname |-> [stem |-> "c", ext |-> ".html"],
             mimetype |-> TextHtml, size |-> 1024]

BigJpegFile == [JpegFile EXCEPT !.size = maxFileSize + 1]

FullJpegFile == [JpegFile EXCEPT !.size = maxFileSize]

NamelessFile == [JpegFile EXCEPT !.originalname = Null]

\* The file of a request: none, or one multer received.
RequestFiles == {Null, JpegFile, HtmlFile, BigJpegFile}

\* The files given to uploadFile by a direct caller.
ApiFiles == {Null, JpegFile, PdfFile, NamelessFile}

PwA == Str(<<97>>)

PwB == Str(<<98>>)

\* The password of a delete request: absent, empty, or one of two strings.
Passwords == {Null, Str(<<>>), PwA, PwB}

\* The password of a request that creates a row: absent, empty, or a string.
NewPasswords == {Null, Str(<<>>), PwA}

GoodBody == [subject |-> Null, comment |-> Text(5), name |-> Null,
             password |-> Null, is_nsfw |-> Null]

\* Bodies that pass both validators.
ValidBodies ==
    {[GoodBody EXCEPT !.password = pw, !.is_nsfw = n] :
        pw \in NewPasswords, n \in {Null, StrTrue}}

\* Bodies with one field out of the schema, or with a blank comment.
OddBodies ==
    {[GoodBody EXCEPT !.comment = c] :
        c \in {Null, Text(0), Blank(1), Text(MaxComment + 1)}}
    \cup {[GoodBody EXCEPT !.comment = Text(0), !.is_nsfw = StrTrue],
          [GoodBody EXCEPT !.name = Text(MaxName + 1)]}

ThreadBodies ==
    ValidBodies \cup OddBodies \cup {[GoodBody EXCEPT !.subject = Text(MaxSubject + 1)]}

ReplyBodies ==
    ValidBodies \cup OddBodies \cup {[GoodBody EXCEPT !.subject = Text(1)]}

\* The requests that create a row.
Creates == {"createThread", "replyToThread"}

\* An id that names no row: rows are numbered from 1.
NoSuchId == 0

Outcome == {"ok", "error"}

\* process.env with none of the variables set.
DefaultEnv ==
    [ALLOWED_FILE_TYPES |-> Null, TRIPCODE_SALT |-> Null, MAX_FILE_SIZE |-> Null]

\* ------------------------------------------------------------------- actions

\* The record of the operation in hand: which it is, what it was given, what
\* it answered, and whether the calls whose failure it passes over succeeded.
\* stage is the part of a request's route that answered it: "multer",
\* "processUpload", "validate" or "controller"; body is the request's body when
\* a validator has read it; temp is what became of the copy
\* of the request's file in the upload directory; tried are the removes the
\* operation attempted.
NoOp ==
    [op |-> "none", status |-> 0, file |-> Null, isNsfw |-> FALSE,
     password |-> Null, target |-> NoSuchId, fileData |-> Null, oc |-> Null,
     removes |-> "ok", queries |-> "ok", examined |-> Null, count |-> 0,
     stage |-> "none", body |-> Null, temp |-> "none", tried |-> Null]

NoTrip == [stage |-> "idle"]

\* No request is served step by step.
NoFlight == [clock |-> 0, reqs |-> <<>>]

InitStore ==
    /\ images = {}
    /\ thumbs = {}
    /\ threads = {}
    /\ posts = {}
    /\ uuidCount = 0
    /\ idCount = 0
    /\ last = NoOp
    /\ trip = NoTrip
    /\ flight = NoFlight

\* A direct call of uploadFile(file, isNsfw).
UploadFileCall ==
    \E file \in ApiFiles, isNsfw \in BOOLEAN, oc \in UploadOutcomes :
        LET r == uploadFile(images, thumbs, file, isNsfw, uuidCount + 1, oc)
        IN  /\ uuidCount < MaxUuid
            /\ images' = r.images
            /\ thumbs' = r.thumbs
            /\ uuidCount' = IF r.result = Null THEN uuidCount ELSE uuidCount + 1
            /\ last' = [NoOp EXCEPT !.op = "uploadFile", !.file = file,
                                    !.oc = oc, !.isNsfw = isNsfw,
                                    !.fileData = r.result,
                                    !.tried = [sharp |-> r.triedSharp,
                                               thumb |-> r.triedThumb]]
            /\ UNCHANGED <<threads, posts, idCount, env, cascade, trip, flight>>

\* A direct call of deleteFile with the keys of the record uploadFile has just
\* returned.
DeleteFileCall ==
    /\ last.op = "uploadFile"
    /\ last.fileData # Null
    /\ \E oc \in DeleteOutcomes :
        LET d == deleteFile(images, thumbs, last.fileData.storagePath,
                            last.fileData.thumbnailPath, oc)
        IN  /\ images' = d.images
            /\ thumbs' = d.thumbs
            /\ last' = [NoOp EXCEPT !.op = "deleteFile", !.fileData = last.fileData,
                                    !.oc = oc,
                                    !.status = IF d.result THEN 1 ELSE 0,
                                    !.tried = [orig |-> d.triedOrig,
                                               thumb |-> d.triedThumb]]
    /\ UNCHANGED <<threads, posts, uuidCount, idCount, env, cascade, trip, flight>>

NextStorage == UploadFileCall \/ DeleteFileCall

InitStorage ==
    /\ InitStore
    /\ env = DefaultEnv
    /\ cascade = TRUE

SpecStorage == InitStorage /\ [][NextStorage]_vars

\* ------------------------------------------------------------ HTTP requests

\* What a request that ends before the controller leaves behind.
Respond(op, status, target, fileData, imgs, ths, stage, file, body, temp) ==
    /\ images' = imgs
    /\ thumbs' = ths
    /\ uuidCount' = IF fileData = Null THEN uuidCount ELSE uuidCount + 1
    /\ last' = [NoOp EXCEPT !.op = op, !.status = status, !.target = target,
                            !.stage = stage, !.file = file, !.body = body,
                            !.temp = temp]
    /\ UNCHANGED <<threads, posts, idCount>>

\* The outcomes of the calls of uploadFile a request draws: the original's
\* upload fails, all succeed, the resize throws, the thumbnail's upload fails.
RequestUploadOutcomes ==
    {[AllOk EXCEPT !.upload = "error"], AllOk, [AllOk EXCEPT !.sharp = "throw"],
     [AllOk EXCEPT !.thumb = "error"]}

\* The outcomes of one deleteFile call a request draws: both removes succeed,
\* the first returns an error, the second returns an error, the first throws.
RequestDeleteOutcomes ==
    {DeleteOk, [DeleteOk EXCEPT !.orig = "error"], [DeleteOk EXCEPT !.thumb = "error"],
     [DeleteOk EXCEPT !.orig = "throw"]}

\* The outcomes of deleteFile in a catch block, drawn only when it is called.
CatchOutcomes(insertOc, fileData) ==
    IF insertOc = "error" /\ fileData # Null THEN RequestDeleteOutcomes
    ELSE {DeleteOk}

\* Whether every remove of the deleteFile calls with these outcomes succeeded.
Removes(ocs) == IF \A oc \in ocs : oc = DeleteOk THEN "ok" ELSE "failed"

\* Whether every one of these queries succeeded.
Queries(ocs) == IF \A oc \in ocs : oc = "ok" THEN "ok" ELSE "failed"

\* POST /thread: fileUpload.single('file'), validateThread, createThread, for a
\* request with one of the given files and bodies.
PostThreadWith(files, bodies) ==
    /\ last = NoOp
    /\ \E file \in files :
        IF multerRejects(file)
        THEN Respond("createThread", errorHandlerStatus, NoSuchId, Null,
                     images, thumbs, "multer", file, Null, "none")
        ELSE
        \E body \in bodies,
           uoc \in (IF file = Null THEN {AllOk} ELSE RequestUploadOutcomes) :
            LET pu == processUpload(images, thumbs, file, body, uuidCount + 1, uoc)
                v == validate(file, body, TRUE)
                early == IF pu.status # 0 THEN pu.status ELSE v
            IN  /\ (file # Null => uuidCount < MaxUuid)
                /\ IF early # 0
                   THEN Respond("createThread", early, NoSuchId,
                                pu.fileData, pu.images, pu.thumbs,
                                IF pu.status # 0 THEN "processUpload" ELSE "validate",
                                file, IF pu.status # 0 THEN Null ELSE body,
                                pu.temp)
                   ELSE
                   \E ioc \in Outcome :
                   \E doc \in CatchOutcomes(ioc, pu.fileData) :
                       LET id == idCount + 1
                           c == createThread(pu.images, pu.thumbs, validated(body),
                                             pu.fileData, id, dateNow(idCount),
                                             ioc, doc)
                       IN  /\ id <= MaxRows
                           /\ images' = c.images
                           /\ thumbs' = c.thumbs
                           /\ threads' = IF c.row = Null THEN threads
                                         ELSE threads \cup {c.row}
                           /\ uuidCount' = IF pu.fileData = Null THEN uuidCount
                                           ELSE uuidCount + 1
                           /\ idCount' = IF c.row = Null THEN idCount ELSE id
                           /\ last' = [NoOp EXCEPT
                                  !.op = "createThread", !.status = c.status,
                                  !.password = body.password,
                                  !.stage = "controller", !.file = file,
                                  !.body = body, !.temp = pu.temp,
                                  !.queries = Queries({ioc}), !.removes = Removes({doc})]
                           /\ UNCHANGED posts
    /\ UNCHANGED <<env, cascade, trip, flight>>

PostThread == PostThreadWith(RequestFiles, ThreadBodies)

\* The ids a request may name: those of the rows, and one that names none.
IdsOf(rows) == {r.id : r \in rows} \cup {NoSuchId}

\* POST /thread/:id/reply: fileUpload.single('file'), validatePost, replyToThread.
PostReply ==
    /\ last = NoOp
    /\ \E threadId \in IdsOf(threads), file \in RequestFiles :
        IF multerRejects(file)
        THEN Respond("replyToThread", errorHandlerStatus, threadId, Null,
                     images, thumbs, "multer", file, Null, "none")
        ELSE
        \E body \in ReplyBodies,
           uoc \in (IF file = Null THEN {AllOk} ELSE RequestUploadOutcomes) :
            LET pu == processUpload(images, thumbs, file, body, uuidCount + 1, uoc)
                v == validate(file, body, FALSE)
                early == IF pu.status # 0 THEN pu.status ELSE v
            IN  /\ (file # Null => uuidCount < MaxUuid)
                /\ IF early # 0
                   THEN Respond("replyToThread", early, threadId,
                                pu.fileData, pu.images, pu.thumbs,
                                IF pu.status # 0 THEN "processUpload" ELSE "validate",
                                file, IF pu.status # 0 THEN Null ELSE body,
                                pu.temp)
                   ELSE
                   \E soc \in Outcome, ioc \in Outcome, boc \in Outcome :
                   \E doc \in CatchOutcomes(IF soc = "ok" THEN ioc ELSE "error",
                                            pu.fileData) :
                       LET id == idCount + 1
                           c == replyToThread(pu.images, pu.thumbs, threads, threadId,
                                              validated(body), pu.fileData, id,
                                              dateNow(idCount), dateNow(idCount) + 1,
                                              [select |-> soc, insert |-> ioc,
                                               bump |-> boc, file |-> doc])
                       IN  /\ id <= MaxRows
                           /\ (soc = "error" => ioc = "ok")
                           /\ (boc = "error" => c.status = 201)
                           /\ images' = c.images
                           /\ thumbs' = c.thumbs
                           /\ posts' = IF c.row = Null THEN posts
                                       ELSE posts \cup {c.row}
                           /\ uuidCount' = IF pu.fileData = Null THEN uuidCount
                                           ELSE uuidCount + 1
                           /\ idCount' = IF c.row = Null THEN idCount ELSE id
                           /\ last' = [NoOp EXCEPT
                                  !.op = "replyToThread", !.status = c.status,
                                  !.password = body.password,
                                  !.stage = "controller", !.file = file,
                                  !.body = body, !.temp = pu.temp,
                                  !.target = threadId,
                                  !.queries = Queries({soc, ioc, boc}),
                                  !.removes = Removes({doc})]
                           /\ threads' = c.threads
    /\ UNCHANGED <<env, cascade, trip, flight>>

\* The outcomes of the calls of a delete handler, drawn only for the calls the
\* handler gets to: the others are left "ok".
DeleteCallOutcomes(row, password, withFiles) ==
    LET reaches == /\ Truthy(password) /\ row # Null
                   /\ generateTripcode(password) = row.tripcode
        hasFile == reaches /\ Truthy(row.storage_path)
        some == IF reaches THEN Outcome ELSE {"ok"}
    IN  [select : IF Truthy(password) THEN Outcome ELSE {"ok"},
         del : some,
         file : IF hasFile THEN RequestDeleteOutcomes ELSE {DeleteOk},
         selPosts : IF reaches /\ withFiles # {} THEN Outcome ELSE {"ok"},
         delPosts : IF reaches /\ withFiles # {} THEN Outcome ELSE {"ok"},
         posts : IF reaches THEN [{r.id : r \in withFiles} -> RequestDeleteOutcomes]
                 ELSE {[i \in {r.id : r \in withFiles} |-> DeleteOk]},
         rpc : some]

\* DELETE /thread/:id
DeleteThread ==
    /\ last = NoOp
    /\ \E threadId \in IdsOf(threads), password \in Passwords :
        LET thread == RowOf(threads, threadId)
            mine == {p \in posts : p.thread_id = threadId}
            withFiles == IF thread = Null THEN {}
                         ELSE {p \in mine : Truthy(p.storage_path)}
        IN  \E oc \in DeleteCallOutcomes(thread, password, withFiles) :
                LET r == deleteThread(images, thumbs, threads, posts, threadId,
                                      password, oc)
                IN  /\ (oc.select = "error" =>
                            oc = [oc EXCEPT !.del = "ok", !.file = DeleteOk,
                                            !.selPosts = "ok", !.delPosts = "ok",
                                            !.rpc = "ok",
                                            !.posts = [i \in DOMAIN oc.posts |-> DeleteOk]])
                    /\ oc.rpc = "ok"
                    /\ images' = r.images
                    /\ thumbs' = r.thumbs
                    /\ threads' = r.threads
                    /\ posts' = r.posts
                    /\ last' = [NoOp EXCEPT
                           !.op = "deleteThread", !.status = r.status,
                           !.stage = "controller",
                           !.password = password, !.target = threadId,
                           !.queries = Queries({oc.select, oc.del, oc.selPosts,
                                                oc.delPosts}),
                           !.removes = Removes({oc.file} \cup
                                               {oc.posts[i] : i \in DOMAIN oc.posts})]
    /\ UNCHANGED <<uuidCount, idCount, env, cascade, trip, flight>>

\* DELETE /post/:id
DeletePost ==
    /\ last = NoOp
    /\ \E postId \in IdsOf(posts), password \in Passwords :
        LET post == RowOf(posts, postId)
        IN  \E oc \in DeleteCallOutcomes(post, password, {}) :
                LET r == deletePost(images, thumbs, threads, posts, postId,
                                    password, oc)
                IN  /\ (oc.select = "error" =>
                            oc = [oc EXCEPT !.del = "ok", !.file = DeleteOk,
                                            !.rpc = "ok"])
                    /\ (oc.del = "error" =>
                            oc = [oc EXCEPT !.file = DeleteOk, !.rpc = "ok"])
                    /\ images' = r.images
                    /\ thumbs' = r.thumbs
                    /\ threads' = r.threads
                    /\ posts' = r.posts
                    /\ last' = [NoOp EXCEPT
                           !.op = "deletePost", !.status = r.status,
                           !.stage = "controller",
                           !.password = password, !.target = postId,
                           !.queries = Queries({oc.select, oc.del, oc.rpc}),
                           !.removes = Removes({oc.file})]
    /\ UNCHANGED <<uuidCount, idCount, env, cascade, trip, flight>>

\* The outcomes of the four reads of a reconciler run: all succeed, or one fails.
ReadOutcomes ==
    LET ok == [listImages |-> "ok", listThumbs |-> "ok",
               threadQuery |-> "ok", postQuery |-> "ok"]
    IN  {ok, [ok EXCEPT !.listImages = "error"], [ok EXCEPT !.listThumbs = "error"],
         [ok EXCEPT !.threadQuery = "error"], [ok EXCEPT !.postQuery = "error"]}

ReadsOk(oc) ==
    /\ oc.listImages = "ok" /\ oc.listThumbs = "ok"
    /\ oc.threadQuery = "ok" /\ oc.postQuery = "ok"

\* One run of cleanupOrphanedFiles with the given outcomes of its reads and the
\* given entries whose remove returns an error.
CleanupWith(reads, failImages, failThumbs) ==
    /\ last = NoOp
    /\ LET oc == reads @@ [failImages |-> failImages, failThumbs |-> failThumbs]
           r == cleanupOrphanedFiles(images, thumbs, threads, posts, oc)
       IN  /\ images' = r.images
           /\ thumbs' = r.thumbs
           /\ last' = [NoOp EXCEPT
                  !.op = "cleanup", !.count = r.count, !.oc = reads,
                  !.queries = IF ReadsOk(reads) THEN "ok" ELSE "failed",
                  !.removes = IF failImages \cup failThumbs = {} THEN "ok"
                              ELSE "failed",
                  !.examined = [images |-> r.imageFiles,
                                thumbs |-> r.thumbnailFiles],
                  !.tried = [images |-> r.triedImages, thumbs |-> r.triedThumbs,
                             failImages |-> r.triedImages \cap failImages,
                             failThumbs |-> r.triedThumbs \cap failThumbs]]
    /\ UNCHANGED <<threads, posts, uuidCount, idCount, env, cascade, trip, flight>>

\* One run of cleanupOrphanedFiles, as the timers of scheduleCleanup start it.
Cleanup ==
    \E reads \in ReadOutcomes :
    \E failImages \in (IF ReadsOk(reads) THEN SUBSET storageList(images) ELSE {{}}),
       failThumbs \in (IF ReadsOk(reads) THEN SUBSET storageList(thumbs) ELSE {{}}) :
        CleanupWith(reads, failImages, failThumbs)

\* A run all of whose reads and removes succeed.
CleanRun ==
    CleanupWith([listImages |-> "ok", listThumbs |-> "ok",
                 threadQuery |-> "ok", postQuery |-> "ok"], {}, {})

\* GET /thread/:id
GetThread ==
    /\ last = NoOp
    /\ \E threadId \in IdsOf(threads), soc \in Outcome, poc \in Outcome :
        /\ (poc = "error" => soc = "ok" /\ RowOf(threads, threadId) # Null)
        /\ last' = [NoOp EXCEPT
               !.op = "getThread", !.target = threadId,
               !.status = getThread(threads, threadId, soc, poc),
               !.stage = "controller",
               !.queries = Queries({soc, poc})]
    /\ UNCHANGED <<images, thumbs, threads, posts, uuidCount, idCount, env,
                   cascade, trip, flight>>

\* The response of the request in hand has been sent, or the reconciler run has
\* returned its count: the server takes up the next one.
Finish ==
    /\ last # NoOp
    /\ last' = NoOp
    /\ UNCHANGED <<images, thumbs, threads, posts, uuidCount, idCount, env,
                   cascade, trip, flight>>

Next ==
    \/ PostThread \/ PostReply \/ GetThread \/ DeleteThread \/ DeletePost
    \/ Cleanup \/ Finish

\* The server after start-up: empty buckets and tables, the default
\* configuration, and a posts table whose foreign key cascades or does not.
Init ==
    /\ InitStore
    /\ env = DefaultEnv
    /\ cascade \in BOOLEAN

Spec == Init /\ [][Next]_vars

\* ------------------------------------------------------- tripcode functions

\* The strings of at most n characters over the characters 'a' and 'b'.
RECURSIVE StringsUpTo(_)
StringsUpTo(n) ==
    IF n = 0 THEN {<<>>}
    ELSE LET shorter == StringsUpTo(n - 1)
         IN  shorter \cup {Append(w, c) : w \in shorter, c \in {97, 98}}

\* The passwords the tripcode functions are applied to: absent, or a string.
TripPasswords == {Null} \cup {Str(w) : w \in StringsUpTo(MaxPasswordLen)}

\* generateTripcode(password)
TripGenerate ==
    /\ trip.stage \in {"idle", "verified"}
    /\ \E p \in TripPasswords :
        trip' = [stage |-> "generated", password |-> p,
                 token |-> generateTripcode(p)]
    /\ UNCHANGED <<images, thumbs, threads, posts, uuidCount, idCount, env, cascade, last,
                 flight>>

\* verifyTripcode(candidate, token) on the token just generated.
TripVerify ==
    /\ trip.stage = "generated"
    /\ \E q \in TripPasswords :
        trip' = [stage |-> "verified", password |-> trip.password,
                 token |-> trip.token, candidate |-> q,
                 ok |-> verifyTripcode(q, trip.token)]
    /\ UNCHANGED <<images, thumbs, threads, posts, uuidCount, idCount, env, cascade, last,
                 flight>>

NextTrip == TripGenerate \/ TripVerify

InitTrip ==
    /\ InitStore
    /\ env \in {[DefaultEnv EXCEPT !.TRIPCODE_SALT = s] :
                   s \in {Null, Str(<<>>), Str(<<115>>)}}
    /\ cascade = TRUE

SpecTrip == InitTrip /\ [][NextTrip]_vars

\* ------------------------------------------------------- reconciler runs

MaxListed == 3

\* What became of one generated file name before the run: nothing is stored
\* under it, or a jpeg was uploaded under it, with or without the NSFW prefix,
\* with or without a thumbnail, and a thread row does or does not reference it.
Seeds ==
    {[kind |-> "none", nsfw |-> FALSE, oc |-> AllOk]}
        \cup [kind : {"orphan", "kept"}, nsfw : BOOLEAN,
              oc : {AllOk, [AllOk EXCEPT !.thumb = "error"]}]

\* The buckets and the thread rows after the first n file names were used as
\* seed says: processUpload for each, and createThread for the referenced ones.
RECURSIVE Seeded(_, _)
Seeded(n, seed) ==
    IF n = 0 THEN [images |-> {}, thumbs |-> {}, threads |-> {}]
    ELSE
    LET s == Seeded(n - 1, seed)
        body == [GoodBody EXCEPT !.is_nsfw = IF seed[n].nsfw THEN StrTrue ELSE Null]
        pu == processUpload(s.images, s.thumbs, JpegFile, body, n, seed[n].oc)
        c == createThread(pu.images, pu.thumbs, validated(body), pu.fileData, n,
                          dateNow(n - 1), "ok", DeleteOk)
    IN  IF seed[n].kind = "none" THEN s
        ELSE [images |-> pu.images, thumbs |-> pu.thumbs,
              threads |-> IF seed[n].kind = "kept" THEN s.threads \cup {c.row}
                          ELSE s.threads]

\* The server at the time a reconciler run starts, after MaxListed uploads.
InitCleanup ==
    /\ \E seed \in [1..MaxListed -> Seeds] :
        LET s == Seeded(MaxListed, seed)
        IN  /\ images = s.images
            /\ thumbs = s.thumbs
            /\ threads = s.threads
    /\ posts = {}
    /\ uuidCount = MaxListed
    /\ idCount = MaxListed
    /\ last = NoOp
    /\ trip = NoTrip
    /\ flight = NoFlight
    /\ env = DefaultEnv
    /\ cascade = TRUE

NextCleanup == Cleanup \/ Finish

SpecCleanup == InitCleanup /\ [][NextCleanup]_vars

\* The timers of scheduleCleanup start a run every interval, each run returns,
\* and the runs in which every call succeeds do not stop occurring.
SpecCleanupFair ==
    /\ InitCleanup
    /\ [][NextCleanup]_vars
    /\ WF_vars(Finish)
    /\ SF_vars(CleanRun)

\* ------------------------------------------------------- size limit

\* MAX_FILE_SIZE in the environment: not set, a number, zero, no number.
MaxFileSizes ==
    {Null, Str(<<50, 48, 52, 56>>), Str(<<48>>), Str(<<120>>)}

\* POST /thread with a jpeg of exactly limits.fileSize bytes or of one more.
PostThreadAtLimit == PostThreadWith({FullJpegFile, BigJpegFile}, {GoodBody})

NextLimit == PostThreadAtLimit \/ Finish

InitLimit ==
    /\ InitStore
    /\ env \in {[DefaultEnv EXCEPT !.MAX_FILE_SIZE = m] : m \in MaxFileSizes}
    /\ cascade = TRUE

SpecLimit == InitLimit /\ [][NextLimit]_vars

\* ------------------------------------------------------- concurrent requests

\* The requests the server handles concurrently: each runs once, step by step,
\* a step ending where the handler awaits a call of the storage service or of the
\* database.
Clients == {1, 2}

\* At most MaxRaceRows generated row ids are stored in a behaviour of the
\* concurrent requests.
MaxRaceRows == 3

\* The body of the concurrent requests.
RaceBody == GoodBody

\* A request that has not arrived: pc is where it stands, fileData what
\* processUpload left in req.fileData, stamp the value of new Date() in the
\* update it has sent, bump the outcome of that update.
Idle ==
    [pc |-> "idle", op |-> "none", target |-> NoSuchId, file |-> Null,
     fileData |-> Null, stamp |-> 0, status |-> 0, bump |-> "none"]

\* new Date() reads flight.clock, and the clock has advanced by the next reading.
Tick(f) == [f EXCEPT !.clock = @ + 1]

\* A request arrives and passes fileUpload.single('file') and its validator.
ReqUpload(c) ==
    /\ flight.reqs[c].pc = "idle"
    /\ \E op \in Creates, file \in {Null, JpegFile} :
       \E target \in (IF op = "replyToThread" THEN IdsOf(threads) ELSE {NoSuchId}),
          uoc \in (IF file = Null THEN {AllOk} ELSE RequestUploadOutcomes) :
            LET pu == processUpload(images, thumbs, file, RaceBody, uuidCount + 1, uoc)
                v == validate(file, RaceBody, op = "createThread")
                early == IF pu.status # 0 THEN pu.status ELSE v
            IN  /\ (file # Null => uuidCount < MaxUuid)
                /\ images' = pu.images
                /\ thumbs' = pu.thumbs
                /\ uuidCount' = IF pu.fileData = Null THEN uuidCount
                                ELSE uuidCount + 1
                /\ flight' = [flight EXCEPT !.reqs[c] =
                       [Idle EXCEPT !.op = op, !.target = target, !.file = file,
                                    !.fileData = pu.fileData, !.status = early,
                                    !.pc = IF early # 0 THEN "done"
                                           ELSE "uploaded"]]
    /\ UNCHANGED <<threads, posts, idCount, env, cascade, last, trip>>

\* createThread: the insert of the thread, and the catch block when it fails.
ReqCreate(c) ==
    LET r == flight.reqs[c]
    IN  /\ r.pc = "uploaded"
        /\ r.op = "createThread"
        /\ \E ioc \in Outcome :
           \E doc \in CatchOutcomes(ioc, r.fileData) :
               LET id == idCount + 1
                   t == createThread(images, thumbs, validated(RaceBody), r.fileData,
                                     id, flight.clock, ioc, doc)
               IN  /\ id <= MaxRaceRows
                   /\ images' = t.images
                   /\ thumbs' = t.thumbs
                   /\ threads' = IF t.row = Null THEN threads
                                 ELSE threads \cup {t.row}
                   /\ idCount' = IF t.row = Null THEN idCount ELSE id
                   /\ flight' = Tick([flight EXCEPT !.reqs[c].pc = "done",
                                                    !.reqs[c].status = t.status])
        /\ UNCHANGED <<posts, uuidCount, env, cascade, last, trip>>

\* replyToThread: the query for the thread.
ReqLookup(c) ==
    LET r == flight.reqs[c]
    IN  /\ r.pc = "uploaded"
        /\ r.op = "replyToThread"
        /\ \E soc \in Outcome :
           \E doc \in CatchOutcomes(soc, r.fileData) :
               LET d == cleanupUploaded(images, thumbs, r.fileData, doc)
                   found == soc = "ok" /\ RowOf(threads, r.target) # Null
               IN  /\ images' = IF soc = "ok" THEN images ELSE d.images
                   /\ thumbs' = IF soc = "ok" THEN thumbs ELSE d.thumbs
                   /\ flight' = [flight EXCEPT
                          !.reqs[c].pc = IF found THEN "found" ELSE "done",
                          !.reqs[c].status = IF found THEN 0
                                             ELSE IF soc = "ok" THEN 404 ELSE 500]
        /\ UNCHANGED <<threads, posts, uuidCount, idCount, env, cascade, last, trip>>

\* replyToThread: the insert of the post, and the catch block when it fails.
\* The insert of a post whose thread is gone fails when the foreign key is
\* declared.
ReqInsert(c) ==
    LET r == flight.reqs[c]
    IN  /\ r.pc = "found"
        /\ \E ioc \in Outcome :
           \E doc \in CatchOutcomes(ioc, r.fileData) :
               LET id == idCount + 1
                   d == cleanupUploaded(images, thumbs, r.fileData, doc)
               IN  /\ id <= MaxRaceRows
                   /\ (cascade /\ RowOf(threads, r.target) = Null => ioc = "error")
                   /\ IF ioc = "ok"
                      THEN /\ posts' = posts \cup
                                  {postDataOf(r.target, validated(RaceBody),
                                              r.fileData, id, flight.clock)}
                           /\ idCount' = id
                           /\ flight' = Tick([flight EXCEPT !.reqs[c].pc = "inserted"])
                           /\ UNCHANGED <<images, thumbs>>
                      ELSE /\ images' = d.images
                           /\ thumbs' = d.thumbs
                           /\ flight' = Tick([flight EXCEPT !.reqs[c].pc = "done",
                                                            !.reqs[c].status = 500])
                           /\ UNCHANGED <<posts, idCount>>
        /\ UNCHANGED <<threads, uuidCount, env, cascade, last, trip>>

\* replyToThread: update({ bumped_at: new Date() }) is built and sent.
ReqStamp(c) ==
    /\ flight.reqs[c].pc = "inserted"
    /\ flight' = Tick([flight EXCEPT !.reqs[c].pc = "stamped",
                                     !.reqs[c].stamp = flight.clock])
    /\ UNCHANGED <<images, thumbs, threads, posts, uuidCount, idCount, env,
                   cascade, last, trip>>

\* replyToThread: the update reaches the database, and the request is answered
\* whatever the update returns.
ReqBump(c) ==
    LET r == flight.reqs[c]
    IN  /\ r.pc = "stamped"
        /\ \E boc \in Outcome :
            /\ threads' = IF boc = "ok"
                          THEN updateThread(threads, r.target, [bumped_at |-> r.stamp])
                          ELSE threads
            /\ flight' = [flight EXCEPT !.reqs[c].pc = "done",
                                        !.reqs[c].status = 201,
                                        !.reqs[c].bump = boc]
        /\ UNCHANGED <<images, thumbs, posts, uuidCount, idCount, env, cascade,
                       last, trip>>

\* One step of request c.
NextRequest(c) ==
    \/ ReqUpload(c) \/ ReqCreate(c) \/ ReqLookup(c) \/ ReqInsert(c)
    \/ ReqStamp(c) \/ ReqBump(c)

NextReplies == \E c \in Clients : NextRequest(c)

\* The server holding one thread without file, created with password 'a', as
\* the concurrent requests arrive.
InitRace ==
    /\ env = DefaultEnv
    /\ images = {}
    /\ thumbs = {}
    /\ threads = {createThread({}, {}, validated([RaceBody EXCEPT !.password = PwA]),
                               Null, 1, dateNow(0), "ok", DeleteOk).row}
    /\ posts = {}
    /\ uuidCount = 0
    /\ idCount = 1
    /\ last = NoOp
    /\ trip = NoTrip
    /\ cascade \in BOOLEAN
    /\ flight = [clock |-> dateNow(1), reqs |-> [c \in Clients |-> Idle]]

\* Concurrent thread and reply requests.
SpecReplies == InitRace /\ [][NextReplies]_vars

NextReconcileRace == NextRequest(1) \/ Cleanup \/ Finish

\* A request and runs of the reconciler, concurrently.
SpecReconcileRace == InitRace /\ [][NextReconcileRace]_vars

NextDeleteRace == NextRequest(1) \/ DeleteThread \/ Finish

\* A request and deletions of threads, concurrently.
SpecDeleteRace == InitRace /\ [][NextDeleteRace]_vars

\* -------------------------------------------------------------------- claims

\* The key under which an uploaded record's original was stored; its thumbnail,
\* when there is one, is stored under the same key in the thumbnail bucket.
KeyOf(fileData) == fileData.storagePath.segs

\* The key a row's file is stored under.
RowKey(row) == row.storage_path.segs

\* Whether some thread or post row has this key as its storage_path.
Referenced(key, rows) == \E r \in rows : r.storage_path = PathStr(key)

\* C1: after uploadFile has returned a record and deleteFile was called with
\* that record's storagePath and thumbnailPath, both removes succeeding, the
\* original is not in the image bucket and the thumbnail is not in the
\* thumbnail bucket.
C1_DeleteAfterUploadLeavesNothing ==
    (last.op = "deleteFile" /\ last.oc = DeleteOk)
        => /\ KeyOf(last.fileData) \notin images
           /\ KeyOf(last.fileData) \notin thumbs

\* C2: a create-thread or reply request that a validator answers with 400
\* leaves both buckets as they were before the request.
C2_RejectedRequestWritesNothing ==
    [][(last'.op \in Creates /\ last'.status = 400)
          => (images' = images /\ thumbs' = thumbs)]_vars

\* C3: deleteThread with the correct password on a thread with file-bearing
\* replies, every call succeeding, ends with the thread row gone, every post row
\* of the thread gone, and the original and the thumbnail of the thread and of
\* each of its posts gone from the buckets.
C3_DeleteThreadRemovesRowsAndFiles ==
    [][(/\ last'.op = "deleteThread"
        /\ last'.status = 200
        /\ last'.queries = "ok"
        /\ last'.removes = "ok"
        /\ \E p \in posts : p.thread_id = last'.target /\ Truthy(p.storage_path))
          => /\ \A t \in threads' : t.id # last'.target
             /\ \A p \in posts' : p.thread_id # last'.target
             /\ \A r \in {t \in threads : t.id = last'.target}
                            \cup {p \in posts : p.thread_id = last'.target} :
                    Truthy(r.storage_path)
                        => (RowKey(r) \notin images' /\ RowKey(r) \notin thumbs')]_vars

\* C4: deleteThread or deletePost with a password that does not verify against
\* the tripcode of the row it names answers 403 and leaves the thread rows, the
\* post rows and both buckets as they were.
C4_WrongPasswordChangesNothing ==
    [][(/\ last'.op \in {"deleteThread", "deletePost"}
        /\ Truthy(last'.password)
        /\ last'.queries = "ok"
        /\ \E r \in (IF last'.op = "deleteThread" THEN threads ELSE posts) :
              r.id = last'.target /\ ~verifyTripcode(last'.password, r.tripcode))
          => /\ last'.status = 403
             /\ threads' = threads
             /\ posts' = posts
             /\ images' = images
             /\ thumbs' = thumbs]_vars

\* A thread that has a tripcode was named by a delete request with another
\* password, and the request was answered 403 with the thread's file in place.
C4_Witness ==
    /\ last.op = "deleteThread"
    /\ last.status = 403
    /\ Truthy(last.password)
    /\ \E t \in threads :
          /\ t.id = last.target
          /\ Truthy(t.tripcode)
          /\ ~verifyTripcode(last.password, t.tripcode)
          /\ Truthy(t.storage_path)
          /\ RowKey(t) \in images

\* C5: after a reconciler run whose listings, queries and removes all succeed,
\* no object whose key no row references is left in either bucket, and every
\* object whose key a row references is still where it was.
C5_RunRemovesExactlyTheOrphans ==
    [][(last'.op = "cleanup" /\ last'.queries = "ok" /\ last'.removes = "ok")
          => /\ \A k \in images' \cup thumbs' : Referenced(k, threads \cup posts)
             /\ \A k \in images : Referenced(k, threads \cup posts) => k \in images'
             /\ \A k \in thumbs : Referenced(k, threads \cup posts) => k \in thumbs']_vars

\* C6: the keys a reconciler run examines are all the keys of the image bucket
\* and all the keys of the thumbnail bucket, however many there are and with or
\* without the NSFW prefix.
C6_RunExaminesEveryKey ==
    [][(last'.op = "cleanup" /\ last'.queries = "ok")
          => /\ {<<n>> : n \in last'.examined.images} = images
             /\ {<<n>> : n \in last'.examined.thumbs} = thumbs]_vars

\* C7: when createThread or replyToThread answers 500 after the middleware had
\* uploaded a file, the removes of deleteFile succeeding, neither the original
\* nor the thumbnail of that upload is in the buckets afterwards.
C7_FailedInsertLeavesNoFile ==
    [][(/\ last'.op \in Creates
        /\ last'.status = 500
        /\ uuidCount' # uuidCount
        /\ last'.removes = "ok")
          => \A k \in images' \cup thumbs' : k[Len(k)].uuid # uuidCount']_vars

\* C8: a token generated from a password verifies against that same password,
\* whether the password is absent, empty or a string.
C8_VerifyAcceptsGenerated ==
    (trip.stage = "verified" /\ trip.candidate = trip.password) => trip.ok

\* A token was generated from a non-empty password and verified with it.
C8_Witness ==
    /\ trip.stage = "verified"
    /\ Truthy(trip.password)
    /\ trip.candidate = trip.password
    /\ trip.token # Null
    /\ trip.ok

\* C9: generateTripcode returns null for an absent and for an empty password,
\* and the row a request without a password has just created has a null
\* tripcode.
C9_NoPasswordNoTripcode ==
    /\ generateTripcode(Null) = Null
    /\ generateTripcode(Str(<<>>)) = Null
    /\ (last.op \in Creates /\ last.status = 201 /\ ~Truthy(last.password))
          => \A r \in threads \cup posts : r.id = idCount => r.tripcode = Null

\* A request with an empty password has just created a row, whose tripcode is
\* null.
C9_Witness ==
    /\ last.op \in Creates
    /\ last.status = 201
    /\ last.password = Str(<<>>)
    /\ \E r \in threads \cup posts : r.id = idCount /\ r.tripcode = Null

\* C10, as stated: every uploadFile call on an image/jpeg file returns a record
\* with a thumbnail URL, and every call on a file that is no image returns a
\* record without one and leaves nothing of it in the thumbnail bucket.
C10_ThumbnailAlwaysForJpeg ==
    [][(last'.op = "uploadFile" /\ last'.file # Null)
          => /\ last'.file.mimetype = ImageJpeg
                  => (last'.fileData # Null /\ last'.fileData.thumbnailPath # Null)
             /\ ~(last'.file.mimetype.family = "image")
                  => /\ last'.fileData # Null
                     /\ last'.fileData.thumbnailPath = Null
                     /\ thumbs' = thumbs]_vars

\* C10, amended: an uploadFile call on an image/jpeg file whose original upload,
\* resize and thumbnail upload all succeed returns a record with a thumbnail
\* URL; a call on a file that is no image leaves nothing in the thumbnail
\* bucket, and the record it returns, if any, has no thumbnail.
C10_ThumbnailIffImageAndCallsSucceed ==
    [][(last'.op = "uploadFile" /\ last'.file # Null)
          => /\ (last'.file.mimetype = ImageJpeg /\ last'.oc = AllOk)
                  => (last'.fileData # Null /\ last'.fileData.thumbnailPath # Null)
             /\ ~(last'.file.mimetype.family = "image")
                  => /\ thumbs' = thumbs
                     /\ last'.fileData # Null => last'.fileData.thumbnailPath = Null]_vars

\* A jpeg was uploaded with every call succeeding and its record carries the
\* thumbnail's URL, the thumbnail being in the bucket.
C10_Witness ==
    /\ last.op = "uploadFile"
    /\ last.file # Null
    /\ last.file.mimetype = ImageJpeg
    /\ last.oc = AllOk
    /\ last.fileData # Null
    /\ last.fileData.thumbnailPath # Null
    /\ KeyOf(last.fileData) \in thumbs

\* Whether a comment is missing, empty or blank.
NoComment(body) == body.comment = Null \/ body.comment.blank

\* Whether every file column of a row is NULL.
NoFileColumns(r) ==
    /\ r.file_name = Null /\ r.file_path = Null /\ r.file_size = Null
    /\ r.file_type = Null /\ r.thumbnail_path = Null /\ r.storage_path = Null

\* C11: a create-thread request without a file whose comment is missing, empty
\* or blank is answered 400 and no row is inserted; one without a file whose
\* body is valid, with a non-empty comment, is answered 201 when the insert
\* succeeds, and the row inserted has every file column NULL.
C11_CommentOrFileRequired ==
    [][(last'.op = "createThread" /\ last'.file = Null)
          => /\ NoComment(last'.body)
                  => (last'.status = 400 /\ threads' = threads /\ posts' = posts)
             /\ (last'.body \in ValidBodies /\ last'.queries = "ok")
                  => /\ last'.status = 201
                     /\ \E r \in threads' \ threads : NoFileColumns(r)]_vars

\* A thread was created from a request without a file, and its row has every
\* file column NULL.
C11_Witness ==
    /\ last.op = "createThread"
    /\ last.file = Null
    /\ last.status = 201
    /\ \E r \in threads : r.id = idCount /\ NoFileColumns(r)

\* C12: a thread or reply request with an allowed file, uploaded successfully,
\* whose body is valid but for a missing or empty comment is not answered with
\* a validation error.
C12_FileMakesCommentOptional ==
    [][(/\ last'.op \in Creates
        /\ last'.file # Null
        /\ last'.stage \in {"validate", "controller"}
        /\ last'.body \in {[GoodBody EXCEPT !.comment = c] : c \in {Null, Text(0)}})
          => last'.status # 400]_vars

\* C13: a file of exactly limits.fileSize bytes passes multer, and a file of one
\* byte more is answered 400 with both buckets left as they were.
C13_SizeLimitIsInclusive ==
    [][(last'.op = "createThread" /\ last'.file # Null)
          => /\ last'.file.size = maxFileSize => last'.stage # "multer"
             /\ last'.file.size = maxFileSize + 1
                  => /\ last'.status = 400
                     /\ images' = images
                     /\ thumbs' = thumbs]_vars

C15_ThumbnailRemoveAlwaysAttempted ==
    (/\ last.op = "deleteFile"
     /\ Truthy(last.fileData.storagePath)
     /\ Truthy(last.fileData.thumbnailPath))
        => last.tried.thumb

\* C16: a get, reply or delete request that reaches its handler, whose queries
\* succeed and whose id names no row (a delete request carrying a password), is
\* answered 404, and the thread and post rows are as they were.
C16_UnknownIdIsNotFound ==
    [][(/\ last'.stage = "controller"
        /\ last'.queries = "ok"
        /\ \/ /\ last'.op \in {"getThread", "replyToThread"}
              /\ \A t \in threads : t.id # last'.target
           \/ /\ last'.op = "deleteThread"
              /\ Truthy(last'.password)
              /\ \A t \in threads : t.id # last'.target
           \/ /\ last'.op = "deletePost"
              /\ Truthy(last'.password)
              /\ \A p \in posts : p.id # last'.target)
          => /\ last'.status = 404
             /\ threads' = threads
             /\ posts' = posts]_vars

\* A delete request with a password named no thread while a thread existed, and
\* was answered 404.
C16_Witness ==
    /\ last.op = "deleteThread"
    /\ last.status = 404
    /\ Truthy(last.password)
    /\ threads # {}
    /\ \A t \in threads : t.id # last.target

\* C17: when uploadFile returns no record for the file of a create-thread or
\* reply request, the request is answered 500, both buckets are as they were
\* before the request, and no row is inserted.
C17_FailedUploadLeavesNothing ==
    [][(last'.op \in Creates /\ last'.stage = "processUpload")
          => /\ last'.status = 500
             /\ images' = images
             /\ thumbs' = thumbs
             /\ threads' = threads
             /\ posts' = posts]_vars

\* The upload of a request's file failed and the request was answered by
\* processUpload.
C17_Witness ==
    /\ last.op \in Creates
    /\ last.file # Null
    /\ last.stage = "processUpload"
    /\ last.status = 500

\* C18: when processUpload has handled a request with a file, the copy of the
\* file in the upload directory has been removed.
C18_TemporaryFileRemoved ==
    (last.op \in Creates /\ last.file # Null /\ last.stage # "multer")
        => last.temp = "removed"

\* C19: with reconciler runs recurring and runs in which every call succeeds
\* recurring, from some time on no object that no row references is left in
\* either bucket.
C19_OrphansEventuallyDeleted ==
    <>[](\A k \in images \cup thumbs : Referenced(k, threads \cup posts))

\* C20: in a reconciler run whose reads succeed, a remove is attempted for
\* every object of either bucket that no row references, whether or not other
\* removes return an error, and the count returned is the number of removes
\* that returned no error.
C20_RunContinuesAfterFailedRemove ==
    [][(last'.op = "cleanup" /\ last'.queries = "ok")
          => /\ \A k \in images :
                    ~Referenced(k, threads \cup posts)
                        => (Len(k) = 1 /\ k[1] \in last'.tried.images)
             /\ \A k \in thumbs :
                    ~Referenced(k, threads \cup posts)
                        => (Len(k) = 1 /\ k[1] \in last'.tried.thumbs)
             /\ last'.count =
                    Cardinality(last'.tried.images \ last'.tried.failImages)
                    + Cardinality(last'.tried.thumbs \ last'.tried.failThumbs)]_vars

\* C21: in an uploadFile call the resize and the upload of the thumbnail are
\* attempted only when the original is in the image bucket; a call whose upload
\* of the original fails returns no record, attempts neither, and leaves the
\* thumbnail bucket as it was.
C21_ThumbnailOnlyAfterOriginal ==
    [][(last'.op = "uploadFile" /\ last'.file # Null)
          => /\ (last'.tried.sharp \/ last'.tried.thumb)
                  => /\ last'.fileData # Null
                     /\ KeyOf(last'.fileData) \in images'
             /\ last'.oc.upload = "error"
                  => /\ last'.fileData = Null
                     /\ ~last'.tried.sharp
                     /\ ~last'.tried.thumb
                     /\ thumbs' = thumbs]_vars

\* The upload of the original of an image failed, and the call returned no
\* record.
C21_Witness ==
    /\ last.op = "uploadFile"
    /\ last.file # Null
    /\ isImage(last.file.mimetype)
    /\ last.oc.upload = "error"
    /\ last.fileData = Null

\* C22: an uploadFile call on an image whose original is stored and whose resize
\* throws or whose thumbnail upload returns an error returns a record without
\* thumbnail that has the original's URL and storage key, and the original is in
\* the image bucket.
C22_ThumbnailFailureIsNotFatal ==
    [][(/\ last'.op = "uploadFile"
        /\ last'.file # Null
        /\ isImage(last'.file.mimetype)
        /\ last'.oc.upload = "ok"
        /\ (last'.oc.sharp = "throw" \/ last'.oc.thumb = "error"))
          => /\ last'.fileData # Null
             /\ last'.fileData.thumbnailPath = Null
             /\ Truthy(last'.fileData.storagePath)
             /\ last'.fileData.filePath
                    = [t |-> "url", bucket |-> IMAGES_BUCKET,
                       segs |-> KeyOf(last'.fileData)]
             /\ KeyOf(last'.fileData) \in images'
             /\ KeyOf(last'.fileData) \notin images]_vars

\* The thumbnail upload of an image failed and the call returned a record.
C22_Witness ==
    /\ last.op = "uploadFile"
    /\ last.fileData # Null
    /\ last.oc = [AllOk EXCEPT !.thumb = "error"]
    /\ last.tried.thumb
    /\ last.fileData.thumbnailPath = Null
    /\ KeyOf(last.fileData) \in images

\* C23: an uploadFile call that returns a record has written one key to the
\* image bucket, has written to the thumbnail bucket that key or nothing, and
\* the key begins with the segment 'nsfw' exactly when isNsfw was set.
C23_SameKeyInBothBuckets ==
    [][(last'.op = "uploadFile" /\ last'.fileData # Null)
          => /\ images' \ images = {KeyOf(last'.fileData)}
             /\ thumbs' \ thumbs \subseteq {KeyOf(last'.fileData)}
             /\ last'.fileData.thumbnailPath # Null
                    => KeyOf(last'.fileData) \in thumbs' \ thumbs
             /\ (KeyOf(last'.fileData)[1] = NsfwDir) <=> last'.isNsfw
             /\ Len(KeyOf(last'.fileData)) = IF last'.isNsfw THEN 2 ELSE 1]_vars

\* An NSFW image was uploaded with its thumbnail, under one key in both buckets.
C23_Witness ==
    /\ last.op = "uploadFile"
    /\ last.isNsfw
    /\ last.fileData # Null
    /\ last.fileData.thumbnailPath # Null
    /\ KeyOf(last.fileData)[1] = NsfwDir
    /\ KeyOf(last.fileData) \in images \cap thumbs

\* Whether no request served step by step is under way.
Quiescent == \A c \in Clients : flight.reqs[c].pc \in {"idle", "done"}

\* C24: no step lowers the bumped_at of a thread, and when the replies under
\* way have all been answered and every update of bumped_at returned no error,
\* the bumped_at of a thread is no earlier than the created_at of any of its
\* posts.
C24_BumpNeverDecreases ==
    [][/\ \A t \in threads : \A u \in threads' :
              u.id = t.id => u.bumped_at >= t.bumped_at
       /\ (Quiescent /\ \A c \in Clients : flight.reqs[c].bump # "error")'
              => \A t \in threads' : \A p \in posts' :
                     p.thread_id = t.id => t.bumped_at >= p.created_at]_vars


\* C25: createThread, the insert of a reply, deletePost and a reconciler run
\* change no field of a row that existed before and exists after; of the rows
\* that stay, only the thread a reply is to changes, and only in bumped_at.  In
\* particular deletePost leaves the thread that owns the post as it was.
C25_OnlyBumpAndDeletionChangeRows ==
    [][(last'.op \in {"createThread", "replyToThread", "deletePost", "cleanup"})
          => /\ \A p \in posts : \A q \in posts' : q.id = p.id => q = p
             /\ \A t \in threads : \A u \in threads' :
                   u.id = t.id =>
                       IF last'.op = "replyToThread" /\ t.id = last'.target
                       THEN [u EXCEPT !.bumped_at = t.bumped_at] = t
                       ELSE u = t]_vars


\* C26: every thread or post row whose storage_path is set names an object that
\* is in the image bucket, also when a reconciler run falls between the upload
\* of a request's file and the insert of its row.
C26_StoragePathsPointAtObjects ==
    \A r \in threads \cup posts :
        Truthy(r.storage_path) => RowKey(r) \in images


\* C27: a reply request with a file that reaches replyToThread and names a
\* thread that does not exist is answered 404, and neither bucket holds an
\* object it did not hold before the request.
C27_ReplyToMissingThreadLeavesNoObject ==
    [][(/\ last'.op = "replyToThread"
        /\ last'.stage = "controller"
        /\ last'.file # Null
        /\ last'.queries = "ok"
        /\ RowOf(threads, last'.target) = Null)
          => /\ last'.status = 404
             /\ images' = images
             /\ thumbs' = thumbs]_vars


C29_DeletedThreadLeavesNoPost ==
    [][/\ (last'.op = "deleteThread" /\ last'.status = 200)
              => \A p \in posts :
                     p.thread_id = last'.target
                         => /\ p \notin posts'
                            /\ (Truthy(p.storage_path)
                                   => /\ RowKey(p) \notin images'
                                      /\ RowKey(p) \notin thumbs')
       /\ \A p \in posts' : RowOf(threads', p.thread_id) # Null]_vars


\* C30: a reconciler run in which a listing of a bucket or a query for the
\* storage paths of the threads or of the posts returns an error attempts no
\* remove, leaves both buckets as they were and returns 0.
C30_FailedReadDeletesNothing ==
    [][(last'.op = "cleanup" /\ last'.queries = "failed")
          => /\ images' = images
             /\ thumbs' = thumbs
             /\ last'.count = 0
             /\ last'.tried.images = {}
             /\ last'.tried.thumbs = {}]_vars

\* A run whose query for the storage paths of the threads failed has returned 0
\* while the image bucket lists an object that no row names.
C30_Witness ==
    /\ last.op = "cleanup"
    /\ last.oc.threadQuery = "error"
    /\ last.count = 0
    /\ \E n \in storageList(images) : isOrphan(validPathsOf(threads, posts), n)

====
